---- MODULE Spec2Model ----
(***************************************************************************)
(* The in-memory appointment registry of src/appointmentService.js: the   *)
(* seeded record list and its three mutations create_appointment,         *)
(* update_appointment_status and delete_appointment.                      *)
(*                                                                         *)
(* Representation.  A date string "YYYY-MM-DD" is the record [y, m, d] of *)
(* its three numbers, a time string "HH:MM" the record [hh, mm]; a string *)
(* that cannot be written that way with 4/2/2 (resp. 2/2) digits is one   *)
(* whose numbers leave the digit ranges.  A payload is a function whose   *)
(* DOMAIN is the set of keys the caller supplied.  A JavaScript Date is   *)
(* [valid, t] with t in minutes; an Invalid Date (NaN) has valid = FALSE  *)
(* and every comparison with it is false.  The host time zone is taken to *)
(* have no offset change on the dates used.  `calls` counts the calls     *)
(* made so far; `last` is the last call with what it returned or threw;   *)
(* `removed` is the set of ids delete_appointment has removed a record of;*)
(* `requests` holds, per client, a create_appointment call that has been  *)
(* started and waits for the single JavaScript thread to run it; `layout` *)
(* is a list of appointments the calendar renders as one scope, with the  *)
(* styles getAppointmentPosition computed for them.  A percentage is kept *)
(* as a numerator over the denominator `den` of its style.  `frontend` is *)
(* the React component: its appointments state and, per handler run, the  *)
(* point the run has reached and the response it waits for.               *)
(***************************************************************************)
EXTENDS Integers, Sequences, FiniteSets, TLC

VARIABLES appointments, last, calls, removed, requests, layout, frontend

vars == <<appointments, last, calls, removed, requests, layout, frontend>>

\* ------------------------------------------------------------------ bounds
\* Longest record list the model explores (12 seeded records plus created).
MaxStore == 14
\* Number of calls made on the service in one behaviour.
MaxCalls == 4
\* Number of clients with a create_appointment call under way at a time.
MaxClients == 2
\* Longest list of appointments rendered as one scope.
MaxScope == 5
\* Number of handler runs of the component that can be under way at a time.
MaxHandlers == 2

\* ------------------------------------------------------------- value types
MkDate(y, m, d) == [y |-> y, m |-> m, d |-> d]
MkTime(hh, mm) == [hh |-> hh, mm |-> mm]

\* `today` of _generateMockAppointments, fixed to one day for the model.
Today == MkDate(2024, 12, 24)

\* formatDate(addDays(today, days)); December has 31 days and days <= 7.
AddDays(date, days) == [date EXCEPT !.d = @ + days]

Apt(id, patientName, date, time, duration, doctorName, status, mode) ==
    [id |-> id, patientName |-> patientName, date |-> date, time |-> time,
     duration |-> duration, doctorName |-> doctorName, status |-> status,
     mode |-> mode]

\* The list returned by _generateMockAppointments.
MockAppointments ==
    << Apt("apt-001", "patient_A", AddDays(Today, 1), MkTime(9, 0), 30, "Dr. A", "Confirmed", "In-Person"),
       Apt("apt-002", "patient_B", AddDays(Today, 1), MkTime(10, 30), 45, "Dr. A", "Scheduled", "Virtual"),
       Apt("apt-003", "patient_C", AddDays(Today, 2), MkTime(14, 0), 60, "Dr. B", "Upcoming", "In-Person"),
       Apt("apt-004", "patient_D", AddDays(Today, 2), MkTime(15, 30), 30, "Dr. B", "Confirmed", "Phone"),
       Apt("apt-005", "patient_E", AddDays(Today, 3), MkTime(11, 0), 45, "Dr. A", "Scheduled", "Virtual"),
       Apt("apt-006", "patient_F", AddDays(Today, 3), MkTime(13, 0), 30, "Dr. A", "Upcoming", "In-Person"),
       Apt("apt-007", "patient_G", AddDays(Today, 4), MkTime(9, 30), 60, "Dr. B", "Confirmed", "In-Person"),
       Apt("apt-008", "patient_H", AddDays(Today, 5), MkTime(10, 0), 30, "Dr. A", "Cancelled", "Virtual"),
       Apt("apt-009", "patient_I", AddDays(Today, 5), MkTime(14, 30), 45, "Dr. B", "Scheduled", "In-Person"),
       Apt("apt-010", "patient_J", AddDays(Today, 6), MkTime(16, 0), 30, "Dr. A", "Upcoming", "Phone"),
       Apt("apt-011", "patient_K", AddDays(Today, 7), MkTime(8, 0), 60, "Dr. B", "Confirmed", "In-Person"),
       Apt("apt-012", "patient_L", AddDays(Today, 1), MkTime(11, 30), 30, "Dr. A", "Scheduled", "Virtual") >>

valid_statuses == {"Confirmed", "Scheduled", "Upcoming", "Cancelled"}

required_fields == {"patientName", "date", "time", "duration", "doctorName", "mode"}

\* ------------------------------------------------------------ conversions
\* !payload[field]: the key is absent, or its value is "" or 0.
Falsy(payload, field) ==
    \/ field \notin DOMAIN payload
    \/ IF field = "duration" THEN payload[field] = 0
       ELSE IF field \in {"patientName", "doctorName", "mode", "status"}
            THEN payload[field] = ""
            ELSE FALSE

\* /^\d{4}-\d{2}-\d{2}$/ : four, two and two decimal digits.
dateRegex(date) == date.y \in 0..9999 /\ date.m \in 0..99 /\ date.d \in 0..99

\* /^([01]\d|2[0-3]):([0-5]\d)$/
timeRegex(time) == time.hh \in 0..23 /\ time.mm \in 0..59

InvalidDate == [valid |-> FALSE, t |-> 0]

\* new Date(`${date}T${time}`): local date-time; Invalid Date when the
\* month or day is out of the calendar.  t counts minutes; days are laid
\* out on a 12 x 31 grid, which keeps the order of instants.
NewDate(date, time) ==
    IF date.m \in 1..12 /\ date.d \in 1..31
    THEN [valid |-> TRUE,
          t |-> (((date.y * 12 + (date.m - 1)) * 31 + (date.d - 1)) * 1440)
                + time.hh * 60 + time.mm]
    ELSE InvalidDate

\* new Date(start.getTime() + duration * 60000)
AddMinutes(start, duration) ==
    IF start.valid THEN [valid |-> TRUE, t |-> start.t + duration] ELSE InvalidDate

\* a <= b and a >= b on Dates: false when either is NaN.
DateLE(a, b) == a.valid /\ b.valid /\ a.t <= b.t
DateGE(a, b) == a.valid /\ b.valid /\ a.t >= b.t

\* ------------------------------------------------------------- operations
Result(outcome, appts, ret) == [outcome |-> outcome, appointments |-> appts, ret |-> ret]

\* The first index whose record satisfies apt.id === appointment_id, 0 for
\* none (Array.prototype.find / findIndex).
FindIndex(appts, appointment_id) ==
    IF \E i \in 1..Len(appts) : appts[i].id = appointment_id
    THEN CHOOSE i \in 1..Len(appts) :
            /\ appts[i].id = appointment_id
            /\ \A j \in 1..(i - 1) : appts[j].id # appointment_id
    ELSE 0

\* Variant of Overlaps that only asks whether the new start falls inside the
\* existing interval.
Overlaps_StartInside(newStart, newEnd, existingStart, existingEnd) ==
    DateLE(existingStart, newStart) /\ ~DateGE(newStart, existingEnd)

\* The overlap test of the conflict loop: !(newEnd <= existingStart ||
\* newStart >= existingEnd).
Overlaps(newStart, newEnd, existingStart, existingEnd) ==
    ~(DateLE(newEnd, existingStart) \/ DateGE(newStart, existingEnd))

\* The body of the conflict loop for one existing record.
ConflictsWith(existing, doctorName, date, time, duration) ==
    /\ existing.doctorName = doctorName
    /\ existing.date = date
    /\ existing.status # "Cancelled"
    /\ LET newStart == NewDate(date, time)
           newEnd == AddMinutes(newStart, duration)
           existingStart == NewDate(date, existing.time)
           existingEnd == AddMinutes(existingStart, existing.duration)
       IN  Overlaps(newStart, newEnd, existingStart, existingEnd)

\* Variant of create_appointment that pushes the record before it validates
\* the status.
create_appointment_PushFirst(appts, payload, appointment_id) ==
    IF \E field \in required_fields : Falsy(payload, field)
    THEN Result("Missing required fields", appts, <<>>)
    ELSE IF ~dateRegex(payload.date)
    THEN Result("Invalid date format", appts, <<>>)
    ELSE IF ~timeRegex(payload.time)
    THEN Result("Invalid time format", appts, <<>>)
    ELSE IF payload.duration <= 0
    THEN Result("Duration must be a positive integer", appts, <<>>)
    ELSE IF \E i \in 1..Len(appts) :
               ConflictsWith(appts[i], payload.doctorName, payload.date,
                             payload.time, payload.duration)
    THEN Result("Time conflict detected", appts, <<>>)
    ELSE LET status == IF Falsy(payload, "status") THEN "Scheduled" ELSE payload.status
             new_appointment ==
                 Apt(appointment_id, payload.patientName, payload.date,
                     payload.time, payload.duration, payload.doctorName,
                     status, payload.mode)
         IN  IF status \notin valid_statuses
             THEN Result("Invalid status", Append(appts, new_appointment), <<>>)
             ELSE Result("ok", Append(appts, new_appointment), <<new_appointment>>)

\* Variant of create_appointment without the conflict loop.
create_appointment_NoConflictLoop(appts, payload, appointment_id) ==
    IF \E field \in required_fields : Falsy(payload, field)
    THEN Result("Missing required fields", appts, <<>>)
    ELSE IF ~dateRegex(payload.date)
    THEN Result("Invalid date format", appts, <<>>)
    ELSE IF ~timeRegex(payload.time)
    THEN Result("Invalid time format", appts, <<>>)
    ELSE IF payload.duration <= 0
    THEN Result("Duration must be a positive integer", appts, <<>>)
    ELSE LET status == IF Falsy(payload, "status") THEN "Scheduled" ELSE payload.status
         IN  IF status \notin valid_statuses
             THEN Result("Invalid status", appts, <<>>)
             ELSE LET new_appointment ==
                          Apt(appointment_id, payload.patientName, payload.date,
                              payload.time, payload.duration, payload.doctorName,
                              status, payload.mode)
                  IN  Result("ok", Append(appts, new_appointment), <<new_appointment>>)

\* Variant of create_appointment that puts the new record at the front of
\* the list.
create_appointment_Unshift(appts, payload, appointment_id) ==
    IF \E field \in required_fields : Falsy(payload, field)
    THEN Result("Missing required fields", appts, <<>>)
    ELSE IF ~dateRegex(payload.date)
    THEN Result("Invalid date format", appts, <<>>)
    ELSE IF ~timeRegex(payload.time)
    THEN Result("Invalid time format", appts, <<>>)
    ELSE IF payload.duration <= 0
    THEN Result("Duration must be a positive integer", appts, <<>>)
    ELSE IF \E i \in 1..Len(appts) :
               ConflictsWith(appts[i], payload.doctorName, payload.date,
                             payload.time, payload.duration)
    THEN Result("Time conflict detected", appts, <<>>)
    ELSE LET status == IF Falsy(payload, "status") THEN "Scheduled" ELSE payload.status
         IN  IF status \notin valid_statuses
             THEN Result("Invalid status", appts, <<>>)
             ELSE LET new_appointment ==
                          Apt(appointment_id, payload.patientName, payload.date,
                              payload.time, payload.duration, payload.doctorName,
                              status, payload.mode)
                  IN  Result("ok", <<new_appointment>> \o appts, <<new_appointment>>)

\* Variant of create_appointment that gives every new record the status
\* Scheduled, whatever the payload says.
create_appointment_AlwaysScheduled(appts, payload, appointment_id) ==
    IF \E field \in required_fields : Falsy(payload, field)
    THEN Result("Missing required fields", appts, <<>>)
    ELSE IF ~dateRegex(payload.date)
    THEN Result("Invalid date format", appts, <<>>)
    ELSE IF ~timeRegex(payload.time)
    THEN Result("Invalid time format", appts, <<>>)
    ELSE IF payload.duration <= 0
    THEN Result("Duration must be a positive integer", appts, <<>>)
    ELSE IF \E i \in 1..Len(appts) :
               ConflictsWith(appts[i], payload.doctorName, payload.date,
                             payload.time, payload.duration)
    THEN Result("Time conflict detected", appts, <<>>)
    ELSE LET status == "Scheduled"
         IN  IF status \notin valid_statuses
             THEN Result("Invalid status", appts, <<>>)
             ELSE LET new_appointment ==
                          Apt(appointment_id, payload.patientName, payload.date,
                              payload.time, payload.duration, payload.doctorName,
                              status, payload.mode)
                  IN  Result("ok", Append(appts, new_appointment), <<new_appointment>>)

\* create_appointment(payload); appointment_id is the identifier the call
\* to Math.random produces when the checks before it have passed.
create_appointment(appts, payload, appointment_id) ==
    IF \E field \in required_fields : Falsy(payload, field)
    THEN Result("Missing required fields", appts, <<>>)
    ELSE IF ~dateRegex(payload.date)
    THEN Result("Invalid date format", appts, <<>>)
    ELSE IF ~timeRegex(payload.time)
    THEN Result("Invalid time format", appts, <<>>)
    ELSE IF payload.duration <= 0
    THEN Result("Duration must be a positive integer", appts, <<>>)
    ELSE IF \E i \in 1..Len(appts) :
               ConflictsWith(appts[i], payload.doctorName, payload.date,
                             payload.time, payload.duration)
    THEN Result("Time conflict detected", appts, <<>>)
    ELSE LET status == IF Falsy(payload, "status") THEN "Scheduled" ELSE payload.status
         IN  IF status \notin valid_statuses
             THEN Result("Invalid status", appts, <<>>)
             ELSE LET new_appointment ==
                          Apt(appointment_id, payload.patientName, payload.date,
                              payload.time, payload.duration, payload.doctorName,
                              status, payload.mode)
                  IN  Result("ok", Append(appts, new_appointment), <<new_appointment>>)

\* Variant of update_appointment_status that copies the record it returns
\* before it assigns the status.
update_appointment_status_CopyFirst(appts, appointment_id, new_status) ==
    IF new_status \notin valid_statuses
    THEN Result("Invalid status", appts, <<>>)
    ELSE LET i == FindIndex(appts, appointment_id)
         IN  IF i # 0
             THEN Result("ok", [appts EXCEPT ![i].status = new_status], <<appts[i]>>)
             ELSE Result("null", appts, <<>>)

\* Variant of update_appointment_status that removes the record and pushes
\* the updated one at the end.
update_appointment_status_Reinsert(appts, appointment_id, new_status) ==
    IF new_status \notin valid_statuses
    THEN Result("Invalid status", appts, <<>>)
    ELSE LET i == FindIndex(appts, appointment_id)
         IN  IF i # 0
             THEN Result("ok",
                         Append(SubSeq(appts, 1, i - 1) \o SubSeq(appts, i + 1, Len(appts)),
                                [appts[i] EXCEPT !.status = new_status]),
                         <<[appts[i] EXCEPT !.status = new_status]>>)
             ELSE Result("null", appts, <<>>)

\* Variant of update_appointment_status without the test of new_status.
update_appointment_status_NoValidation(appts, appointment_id, new_status) ==
    LET i == FindIndex(appts, appointment_id)
    IN  IF i # 0
        THEN Result("ok", [appts EXCEPT ![i].status = new_status],
                    <<[appts[i] EXCEPT !.status = new_status]>>)
        ELSE Result("null", appts, <<>>)

\* Variant of update_appointment_status that looks the record up before it
\* tests new_status.
update_appointment_status_LookupFirst(appts, appointment_id, new_status) ==
    LET i == FindIndex(appts, appointment_id)
    IN  IF i = 0
        THEN Result("null", appts, <<>>)
        ELSE IF new_status \notin valid_statuses
        THEN Result("Invalid status", appts, <<>>)
        ELSE Result("ok", [appts EXCEPT ![i].status = new_status],
                    <<[appts[i] EXCEPT !.status = new_status]>>)

\* update_appointment_status(appointment_id, new_status)
update_appointment_status(appts, appointment_id, new_status) ==
    IF new_status \notin valid_statuses
    THEN Result("Invalid status", appts, <<>>)
    ELSE LET i == FindIndex(appts, appointment_id)
         IN  IF i # 0
             THEN Result("ok", [appts EXCEPT ![i].status = new_status],
                         <<[appts[i] EXCEPT !.status = new_status]>>)
             ELSE Result("null", appts, <<>>)

\* Variant of delete_appointment without the index !== -1 test:
\* splice(-1, 1) removes the last record.
delete_appointment_NoIndexTest(appts, appointment_id) ==
    LET index == FindIndex(appts, appointment_id)
    IN  IF index # 0
        THEN Result("true", SubSeq(appts, 1, index - 1) \o SubSeq(appts, index + 1, Len(appts)), <<>>)
        ELSE Result("true", SubSeq(appts, 1, Len(appts) - 1), <<>>)

\* delete_appointment(appointment_id)
delete_appointment(appts, appointment_id) ==
    LET index == FindIndex(appts, appointment_id)
    IN  IF index # 0
        THEN Result("true", SubSeq(appts, 1, index - 1) \o SubSeq(appts, index + 1, Len(appts)), <<>>)
        ELSE Result("false", appts, <<>>)

\* if (filters.key): the key is given and its value is not "".  A date
\* filter is a date record and never empty.
FilterGiven(filters, key) ==
    /\ key \in DOMAIN filters
    /\ IF key = "date" THEN TRUE ELSE filters[key] # ""

\* filtered.filter(apt => apt[key] === value) on a list of references.
FilterRefs(appts, refs, key, value) == SelectSeq(refs, LAMBDA ref : appts[ref][key] = value)

\* Variant of get_appointments in which every filter is applied to the whole
\* list instead of the list narrowed so far.
get_appointments_NoNarrowing(appts, filters) ==
    LET all == [i \in 1..Len(appts) |-> i]
        byDate == IF FilterGiven(filters, "date")
                  THEN FilterRefs(appts, all, "date", filters.date)
                  ELSE all
        byStatus == IF FilterGiven(filters, "status")
                    THEN FilterRefs(appts, all, "status", filters.status)
                    ELSE byDate
        byDoctor == IF FilterGiven(filters, "doctorName")
                    THEN FilterRefs(appts, all, "doctorName", filters.doctorName)
                    ELSE byStatus
    IN  Result("ok", appts, byDoctor)

\* get_appointments(filters).  The array it returns is new, its elements are
\* the record objects of the store: each is given as a reference, the
\* position of the object in _appointments.
get_appointments(appts, filters) ==
    LET all == [i \in 1..Len(appts) |-> i]
        byDate == IF FilterGiven(filters, "date")
                  THEN FilterRefs(appts, all, "date", filters.date)
                  ELSE all
        byStatus == IF FilterGiven(filters, "status")
                    THEN FilterRefs(appts, byDate, "status", filters.status)
                    ELSE byDate
        byDoctor == IF FilterGiven(filters, "doctorName")
                    THEN FilterRefs(appts, byStatus, "doctorName", filters.doctorName)
                    ELSE byStatus
    IN  Result("ok", appts, byDoctor)

\* The records a list of references points to.
Deref(appts, refs) == [k \in 1..Len(refs) |-> appts[refs[k]]]

\* record[field] = value through a reference to a record object.
WriteField(appts, ref, field, value) == [appts EXCEPT ![ref][field] = value]

\* ------------------------------------------------------------------ layout
SLOT_HEIGHT == 80

\* Math.round(n / d) for d > 0: the nearest integer, halves upwards.
MathRound(n, d) == (2 * n + d) \div (2 * d)

Max(a, b) == IF a >= b THEN a ELSE b

\* const [hours, minutes] = time.split(':').map(Number); hours * 60 + minutes
StartMinutes(apt) == apt.time.hh * 60 + apt.time.mm

\* The two spellings of "Dr. \u00c5": A followed by the combining ring
\* U+030A, and the single letter U+00C5.  They are canonically equivalent.
DrAringDecomposed == "Dr. A[U+030A]"
DrAringPrecomposed == "Dr. [U+00C5]"

\* The doctor names used, in the order of localeCompare (the collation of
\* the host: letters first, accents and case last, canonically equivalent
\* strings equal) and in the order of < on strings (UTF-16 code units: every
\* capital letter before every small one, U+00C5 after both).
CollationOrder ==
    <<{"Dr. A"}, {DrAringDecomposed, DrAringPrecomposed}, {"Dr. ab"}, {"Dr. B"}, {"Dr. C"}>>
CodeUnitOrder ==
    <<{"Dr. A"}, {DrAringDecomposed}, {"Dr. B"}, {"Dr. C"}, {"Dr. ab"}, {DrAringPrecomposed}>>

Rank(order, name) == CHOOSE i \in 1..Len(order) : name \in order[i]

\* a.doctorName.localeCompare(b.doctorName)
localeCompare(a, b) == Rank(CollationOrder, a) - Rank(CollationOrder, b)

\* a < b on strings
StringLess(a, b) == Rank(CodeUnitOrder, a) < Rank(CodeUnitOrder, b)

\* The comparator given to sort: by start time, then by doctor name.
CompareOverlapping(a, b) ==
    IF StartMinutes(a) # StartMinutes(b)
    THEN StartMinutes(a) - StartMinutes(b)
    ELSE localeCompare(a.doctorName, b.doctorName)

\* x put into a sorted list behind every element that is not after it.
InsertSorted(sorted, x) ==
    LET before == {i \in 1..Len(sorted) : CompareOverlapping(sorted[i], x) <= 0}
        n == IF before = {} THEN 0 ELSE CHOOSE i \in before : \A j \in before : j <= i
    IN  SubSeq(sorted, 1, n) \o <<x>> \o SubSeq(sorted, n + 1, Len(sorted))

\* Array.prototype.sort with CompareOverlapping (a stable sort).
RECURSIVE SortOverlapping(_)
SortOverlapping(list) ==
    IF list = <<>> THEN <<>>
    ELSE InsertSorted(SortOverlapping(SubSeq(list, 1, Len(list) - 1)), list[Len(list)])

\* The filter that keeps the other appointments whose interval overlaps.
OverlappingOf(appointment, allAppointments) ==
    LET startMinutes == StartMinutes(appointment)
        endMinutes == startMinutes + appointment.duration
        Keep(apt) ==
            /\ apt.id # appointment.id
            /\ ~(endMinutes <= StartMinutes(apt)
                 \/ startMinutes >= StartMinutes(apt) + apt.duration)
    IN  SortOverlapping(SelectSeq(allAppointments, Keep))

\* The loop that counts the leading members of overlapping that come before
\* the appointment and stops at the first that does not.
OverlapIndex(appointment, overlapping) ==
    LET Before(overlap) ==
            \/ StartMinutes(overlap) < StartMinutes(appointment)
            \/ /\ StartMinutes(overlap) = StartMinutes(appointment)
               /\ StringLess(overlap.doctorName, appointment.doctorName)
        stops == {i \in 1..Len(overlapping) : ~Before(overlapping[i])}
    IN  IF stops = {} THEN Len(overlapping)
        ELSE (CHOOSE i \in stops : \A j \in stops : i <= j) - 1

\* Variant of getAppointmentPosition that returns the calculated height
\* without the minimum of one slot.
getAppointmentPosition_NoMinimumHeight(appointment, allAppointments) ==
    LET startMinutes == StartMinutes(appointment)
        calendarStart == 7 * 60
        top == MathRound((startMinutes - calendarStart) * SLOT_HEIGHT, 30)
        height == MathRound(appointment.duration * SLOT_HEIGHT, 30)
        overlapping == OverlappingOf(appointment, allAppointments)
        overlapIndex == OverlapIndex(appointment, overlapping)
        totalOverlapping == Len(overlapping) + 1
        gapPercent == 2
        totalGaps == totalOverlapping - 1
        availableWidth == 100 - (totalGaps * gapPercent)
    IN  [top |-> top,
         height |-> height,
         left |-> (overlapIndex * availableWidth) + (overlapIndex * gapPercent * totalOverlapping),
         width |-> Max(availableWidth, 20 * totalOverlapping),
         den |-> totalOverlapping,
         zIndex |-> 10 + overlapIndex]

\* getAppointmentPosition(appointment, allAppointments).  top and height are
\* pixels; left and width are percentages left / den and width / den.
getAppointmentPosition(appointment, allAppointments) ==
    LET startMinutes == StartMinutes(appointment)
        calendarStart == 7 * 60
        top == MathRound((startMinutes - calendarStart) * SLOT_HEIGHT, 30)
        height == MathRound(Max(appointment.duration * SLOT_HEIGHT, SLOT_HEIGHT * 30), 30)
        overlapping == OverlappingOf(appointment, allAppointments)
        overlapIndex == OverlapIndex(appointment, overlapping)
        totalOverlapping == Len(overlapping) + 1
        gapPercent == 2
        totalGaps == totalOverlapping - 1
        availableWidth == 100 - (totalGaps * gapPercent)
    IN  [top |-> top,
         height |-> height,
         left |-> (overlapIndex * availableWidth) + (overlapIndex * gapPercent * totalOverlapping),
         width |-> Max(availableWidth, 20 * totalOverlapping),
         den |-> totalOverlapping,
         zIndex |-> 10 + overlapIndex]

\* ------------------------------------------------------------------ inputs
D1 == AddDays(Today, 1)
\* Passes dateRegex, but there is no month 13: "2024-13-01".
NoSuchDate == MkDate(2024, 13, 1)
\* Fails dateRegex: "20245-12-25".
MalformedDate == MkDate(20245, 12, 25)
\* Fails timeRegex: "24:00".
MalformedTime == MkTime(24, 0)

\* Doctor, date and time of the payloads: around the seeded apt-001
\* (Dr. A, D1, 09:00, 30 minutes), and two slots of another doctor and date.
Slots ==
    ({"Dr. A"} \X {D1} \X {MkTime(9, 0), MkTime(9, 15), MkTime(9, 30)})
    \cup ({"Dr. B"} \X {NoSuchDate} \X {MkTime(9, 0), MkTime(9, 30)})

BasePayload(doctorName, date, time) ==
    [patientName |-> "patient_X", date |-> date, time |-> time, duration |-> 30,
     doctorName |-> doctorName, mode |-> "Virtual"]

WithStatus(payload, status) == payload @@ [status |-> status]

Without(payload, field) == [f \in (DOMAIN payload) \ {field} |-> payload[f]]

\* Payloads that pass every validation.
GoodPayloads ==
    {BasePayload(s[1], s[2], s[3]) : s \in Slots}
    \cup {WithStatus(BasePayload("Dr. A", D1, MkTime(9, 15)), "Cancelled")}
    \cup {[BasePayload("Dr. A", D1, MkTime(9, 30)) EXCEPT !.mode = "Hologram"]}

\* Payloads that fail one validation each.
BadPayloads ==
    LET p0 == BasePayload("Dr. A", D1, MkTime(9, 15))
    IN  {Without(p0, "mode"), [p0 EXCEPT !.patientName = ""],
         [p0 EXCEPT !.duration = 0], [p0 EXCEPT !.duration = -15],
         [p0 EXCEPT !.date = MalformedDate], [p0 EXCEPT !.time = MalformedTime],
         WithStatus(p0, "Bogus"),
         WithStatus(BasePayload("Dr. B", NoSuchDate, MkTime(9, 0)), "Bogus")}

Payloads == GoodPayloads \cup BadPayloads

\* Identifiers `apt-${Math.random().toString(36).substr(2, 8)}` can produce.
RandomIds == {"apt-k3j9x2ab", "apt-zq81mf0c"}

\* Identifiers callers pass to update and delete.
CallIds == {"apt-001", "apt-k3j9x2ab", "does-not-exist"}

CallStatuses == {"Confirmed", "Cancelled", "Bogus"}

\* Filter objects callers pass to get_appointments.
NoFilter == [key \in {} |-> ""]

FilterInputs ==
    {NoFilter,
     [status |-> "Cancelled"],
     [doctorName |-> ""],
     [date |-> D1, status |-> "Scheduled"],
     [date |-> D1, doctorName |-> "Dr. A"]}

\* What a caller assigns to a record it got from get_appointments.
WriteInputs == {<<"status", "Cancelled">>, <<"duration", 60>>}

\* Appointments of one day the calendar is given: three that overlap in a
\* chain, one shorter than a slot with the start and the doctor of another,
\* one apart whose start and duration are not multiples of three minutes,
\* one that starts with another and whose doctor name begins with a small
\* letter, two that start with these and whose doctor names are the two
\* spellings of one name.
ScopePool ==
    {Apt("apt-z", "patient_Z", D1, MkTime(8, 0), 75, "Dr. C", "Scheduled", "Virtual"),
     Apt("apt-x", "patient_X", D1, MkTime(9, 0), 60, "Dr. A", "Scheduled", "Virtual"),
     Apt("apt-y", "patient_Y", D1, MkTime(9, 30), 60, "Dr. B", "Scheduled", "Virtual"),
     Apt("apt-w", "patient_W", D1, MkTime(9, 0), 20, "Dr. A", "Cancelled", "Virtual"),
     Apt("apt-v", "patient_V", D1, MkTime(10, 40), 40, "Dr. B", "Confirmed", "Phone"),
     Apt("apt-u", "patient_U", D1, MkTime(9, 30), 30, "Dr. ab", "Upcoming", "In-Person"),
     Apt("apt-n", "patient_N", D1, MkTime(9, 30), 30, DrAringDecomposed, "Scheduled", "Phone"),
     Apt("apt-m", "patient_M", D1, MkTime(9, 30), 30, DrAringPrecomposed, "Scheduled", "Phone")}

\* Lists of different appointments of the pool, up to MaxScope long.
Scopes ==
    {list \in UNION {[1..n -> ScopePool] : n \in 0..MaxScope} :
        \A i, j \in 1..Len(list) : i # j => list[i] # list[j]}

NothingRendered == [scope |-> <<>>, styles |-> <<>>, rendered |-> FALSE]

\* What the handlers of the component ask the backend to do: a delete and a
\* status update of seeded records, a create the backend accepts and one it
\* refuses for a conflict with apt-001.
UiPayload(doctorName, time) ==
    [patientName |-> "patient_X", date |-> D1, time |-> time, duration |-> 60,
     doctorName |-> doctorName, mode |-> "In-Person", status |-> "Scheduled"]

UiOp(kind, payload, id, status) ==
    [kind |-> kind, payload |-> payload, id |-> id, status |-> status]

UiOps ==
    {UiOp("delete", <<>>, "apt-001", ""),
     UiOp("update", <<>>, "apt-002", "Cancelled"),
     UiOp("create", <<UiPayload("Dr. B", MkTime(8, 30))>>, "", ""),
     UiOp("create", <<UiPayload("Dr. A", MkTime(8, 30))>>, "", "")}

\* The initial fetch of useEffect and the handler runs.
Handlers == 0..MaxHandlers

HandlerAt(pc, op, response) == [pc |-> pc, op |-> op, response |-> response]

NoOp == UiOp("mount", <<>>, "", "")

\* The component before it is mounted.
NotMounted ==
    [appointments |-> <<>>,
     handlers |-> [h \in Handlers |-> HandlerAt("idle", NoOp, <<>>)]]

\* ----------------------------------------------------------- state machine
\* The last call: its arguments, what it returned or threw, and whether the
\* call before it was the same operation with the same arguments.
Call(op, payload, id, status, r, repeat) ==
    [op |-> op, payload |-> payload, id |-> id, status |-> status,
     outcome |-> r.outcome, ret |-> r.ret, repeat |-> repeat]

Clients == 1..MaxClients

\* A client that has no call under way.
Idle == [pc |-> "idle", payload |-> <<>>, outcome |-> ""]

\* Payloads of the calls made at the same time: one doctor and date, a slot
\* no seeded record occupies.
ConcurrentPayloads ==
    {BasePayload("Dr. B", D1, MkTime(9, 0)),
     BasePayload("Dr. B", D1, MkTime(9, 15)),
     BasePayload("Dr. B", D1, MkTime(9, 30)),
     WithStatus(BasePayload("Dr. B", D1, MkTime(9, 0)), "Cancelled")}

Init ==
    /\ appointments = MockAppointments
    /\ calls = 0
    /\ removed = {}
    /\ requests = [c \in Clients |-> Idle]
    /\ layout = NothingRendered
    /\ frontend = NotMounted
    /\ last = Call("none", <<>>, "", "", Result("", <<>>, <<>>), FALSE)

Create(payload, appointment_id) ==
    LET r == create_appointment(appointments, payload, appointment_id)
    IN  /\ calls < MaxCalls
        /\ calls' = calls + 1
        /\ r.outcome = "ok" => Len(appointments) < MaxStore
        /\ appointments' = r.appointments
        /\ last' = Call("create", <<payload>>, "", "", r,
                        last.op = "create" /\ last.payload = <<payload>>)
        /\ UNCHANGED <<removed, requests, layout, frontend>>

UpdateStatus(appointment_id, new_status) ==
    LET r == update_appointment_status(appointments, appointment_id, new_status)
    IN  /\ calls < MaxCalls
        /\ calls' = calls + 1
        /\ appointments' = r.appointments
        /\ last' = Call("update", <<>>, appointment_id, new_status, r,
                        /\ last.op = "update"
                        /\ last.id = appointment_id
                        /\ last.status = new_status)
        /\ UNCHANGED <<removed, requests, layout, frontend>>

Delete(appointment_id) ==
    LET r == delete_appointment(appointments, appointment_id)
    IN  /\ calls < MaxCalls
        /\ calls' = calls + 1
        /\ appointments' = r.appointments
        /\ last' = Call("delete", <<>>, appointment_id, "", r,
                        last.op = "delete" /\ last.id = appointment_id)
        /\ removed' = IF r.outcome = "true" THEN removed \cup {appointment_id} ELSE removed
        /\ UNCHANGED <<requests, layout, frontend>>

Get(filters) ==
    LET r == get_appointments(appointments, filters)
    IN  /\ calls < MaxCalls
        /\ calls' = calls + 1
        /\ appointments' = r.appointments
        /\ last' = Call("get", <<filters>>, "", "", r, FALSE)
        /\ UNCHANGED <<removed, requests, layout, frontend>>

\* A caller assigns to a field of the k-th record of the list the last
\* get_appointments returned.
WriteReturned(k, field, value) ==
    /\ last.op = "get"
    /\ k \in 1..Len(last.ret)
    /\ appointments' = WriteField(appointments, last.ret[k], field, value)
    /\ last' = [op |-> "write", payload |-> <<>>, id |-> field, status |-> "",
                outcome |-> "ok", ret |-> <<>>, repeat |-> FALSE]
    /\ UNCHANGED <<calls, removed, requests, layout, frontend>>

\* A caller assigns to a field of the record the last create_appointment
\* returned.  That record is `{ ...new_appointment }`, an object of its own
\* whose fields are strings and numbers: the assignment changes the copy the
\* caller holds and no element of _appointments.
WriteCreated(field, value) ==
    /\ last.op = "create"
    /\ last.outcome = "ok"
    /\ last' = [op |-> "write", payload |-> <<>>, id |-> field, status |-> "",
                outcome |-> "ok", ret |-> <<[last.ret[1] EXCEPT ![field] = value]>>,
                repeat |-> FALSE]
    /\ UNCHANGED <<appointments, calls, removed, requests, layout, frontend>>

Next ==
    \/ \E payload \in Payloads, appointment_id \in RandomIds : Create(payload, appointment_id)
    \/ \E appointment_id \in CallIds, new_status \in CallStatuses :
          UpdateStatus(appointment_id, new_status)
    \/ \E appointment_id \in CallIds : Delete(appointment_id)
    \/ \E filters \in FilterInputs : Get(filters)

Spec == Init /\ [][Next]_vars

\* A client starts create_appointment(payload): the call is under way but
\* its body has not run yet.
Issue(c, payload) ==
    /\ requests[c].pc = "idle"
    /\ requests' = [requests EXCEPT ![c] = [pc |-> "queued", payload |-> <<payload>>,
                                            outcome |-> ""]]
    /\ UNCHANGED <<appointments, last, calls, removed, layout, frontend>>

\* The thread runs the body of the call of client c.  The body is
\* synchronous (no await, no callback), so it runs from the first check to
\* the push without another call in between.
Run(c, appointment_id) ==
    LET payload == requests[c].payload[1]
        r == create_appointment(appointments, payload, appointment_id)
    IN  /\ requests[c].pc = "queued"
        /\ calls < MaxCalls
        /\ calls' = calls + 1
        /\ r.outcome = "ok" => Len(appointments) < MaxStore
        /\ appointments' = r.appointments
        /\ last' = Call("create", <<payload>>, "", "", r, FALSE)
        /\ requests' = [requests EXCEPT ![c] = [pc |-> "done", payload |-> <<payload>>,
                                                outcome |-> r.outcome]]
        /\ UNCHANGED <<removed, layout, frontend>>

NextConcurrent ==
    \/ \E c \in Clients, payload \in ConcurrentPayloads : Issue(c, payload)
    \/ \E c \in Clients, appointment_id \in RandomIds : Run(c, appointment_id)

\* Create calls of several clients under way at the same time.
SpecConcurrent == Init /\ [][NextConcurrent]_vars

\* The calendar is given a list of appointments to render.
InitLayout ==
    /\ appointments = MockAppointments
    /\ calls = 0
    /\ removed = {}
    /\ requests = [c \in Clients |-> Idle]
    /\ last = Call("none", <<>>, "", "", Result("", <<>>, <<>>), FALSE)
    /\ frontend = NotMounted
    /\ \E list \in Scopes : layout = [scope |-> list, styles |-> <<>>, rendered |-> FALSE]

\* viewAppointments.map(appointment =>
\*     getAppointmentPosition(appointment, viewAppointments))
Render ==
    /\ ~layout.rendered
    /\ layout' = [scope |-> layout.scope,
                  styles |-> [i \in 1..Len(layout.scope) |->
                                 getAppointmentPosition(layout.scope[i], layout.scope)],
                  rendered |-> TRUE]
    /\ UNCHANGED <<appointments, last, calls, removed, requests, frontend>>

NextLayout == Render

\* The layout of every list of appointments of the pool.
SpecLayout == InitLayout /\ [][NextLayout]_vars

\* What the backend does with the request of a handler.
Backend(appts, op, appointment_id) ==
    IF op.kind = "create" THEN create_appointment(appts, op.payload[1], appointment_id)
    ELSE IF op.kind = "update" THEN update_appointment_status(appts, op.id, op.status)
    ELSE delete_appointment(appts, op.id)

\* The component is mounted: appointments is [] and the fetch of useEffect
\* is on its way to the backend.
InitFrontend ==
    /\ appointments = MockAppointments
    /\ calls = 0
    /\ removed = {}
    /\ requests = [c \in Clients |-> Idle]
    /\ layout = NothingRendered
    /\ last = Call("none", <<>>, "", "", Result("", <<>>, <<>>), FALSE)
    /\ frontend = [NotMounted EXCEPT !.handlers[0] = HandlerAt("refreshing", NoOp, <<>>)]

\* handleCreateAppointment, handleStatusUpdate or handleDeleteAppointment
\* starts and sends its request.
Click(h, op) ==
    /\ h # 0
    /\ frontend.handlers[h].pc = "idle"
    /\ frontend' = [frontend EXCEPT !.handlers[h] = HandlerAt("mutating", op, <<>>)]
    /\ UNCHANGED <<appointments, last, calls, removed, requests, layout>>

\* The backend serves the request of handler h.  A response that is not ok
\* makes the wrapper throw and the handler end in its catch; on an ok
\* response the handler goes on to `await getAppointments()`.
ServeMutation(h, appointment_id) ==
    LET r == Backend(appointments, frontend.handlers[h].op, appointment_id)
    IN  /\ frontend.handlers[h].pc = "mutating"
        /\ r.outcome = "ok" => Len(appointments) < MaxStore
        /\ appointments' = r.appointments
        /\ frontend' = [frontend EXCEPT !.handlers[h].pc =
                            IF r.outcome \in {"ok", "true"} THEN "refreshing" ELSE "failed"]
        /\ UNCHANGED <<last, calls, removed, requests, layout>>

\* The backend serves the GET /appointments of handler h: the response
\* carries the records of the store at this moment.
ServeGet(h) ==
    LET r == get_appointments(appointments, NoFilter)
    IN  /\ frontend.handlers[h].pc = "refreshing"
        /\ frontend' = [frontend EXCEPT
                           !.handlers[h].pc = "responded",
                           !.handlers[h].response = Deref(r.appointments, r.ret)]
        /\ UNCHANGED <<appointments, last, calls, removed, requests, layout>>

\* The response reaches handler h: setAppointments(refreshed).
Receive(h) ==
    /\ frontend.handlers[h].pc = "responded"
    /\ frontend' = [frontend EXCEPT
                       !.appointments = frontend.handlers[h].response,
                       !.handlers[h].pc = "done",
                       !.handlers[h].response = <<>>]
    /\ UNCHANGED <<appointments, last, calls, removed, requests, layout>>

NextFrontend ==
    \/ \E h \in Handlers, op \in UiOps : Click(h, op)
    \/ \E h \in Handlers, appointment_id \in RandomIds : ServeMutation(h, appointment_id)
    \/ \E h \in Handlers : ServeGet(h)
    \/ \E h \in Handlers : Receive(h)

\* The component and the backend, with requests and responses in any order.
SpecFrontend == InitFrontend /\ [][NextFrontend]_vars

\* The service together with callers that write to the records they got.
NextCallers ==
    \/ Next
    \/ \E k \in {1}, w \in WriteInputs : WriteReturned(k, w[1], w[2])
    \/ \E w \in WriteInputs : WriteCreated(w[1], w[2])

SpecCallers == Init /\ [][NextCallers]_vars

\* ------------------------------------------------- notions of the claims
\* Wall-clock interval [start, start + duration) of a record or payload,
\* in minutes of its date.
StartMin(x) == x.time.hh * 60 + x.time.mm
EndMin(x) == StartMin(x) + x.duration

\* Half-open overlap: s1 < e2 and s2 < e1.
IntervalsOverlap(a, b) == StartMin(a) < EndMin(b) /\ StartMin(b) < EndMin(a)

SameDoctorAndDate(a, b) == a.doctorName = b.doctorName /\ a.date = b.date

\* A payload every validation of create accepts.
ValidPayload(p) ==
    /\ \A f \in required_fields : ~Falsy(p, f)
    /\ dateRegex(p.date)
    /\ timeRegex(p.time)
    /\ p.duration > 0
    /\ (Falsy(p, "status") \/ p.status \in valid_statuses)

Ids(appts) == {appts[i].id : i \in 1..Len(appts)}

\* The step is a call of create_appointment with a valid payload.
ValidCreateStep == last'.op = "create" /\ ValidPayload(last'.payload[1])

\* Indices of the records a new payload p overlaps on the same doctor and date.
Overlapped(appts, p) ==
    {i \in 1..Len(appts) : SameDoctorAndDate(appts[i], p) /\ IntervalsOverlap(appts[i], p)}

\* Indices of the records that end when p starts or start when p ends.
Adjacent(appts, p) ==
    {i \in 1..Len(appts) :
        /\ SameDoctorAndDate(appts[i], p)
        /\ (EndMin(appts[i]) = StartMin(p) \/ StartMin(appts[i]) = EndMin(p))}

\* ------------------------------------------------------------------ claims
\* C1: in every reachable state no two distinct records of the same doctor
\* and date, neither Cancelled, have overlapping intervals.
C1_NoDoubleBooking ==
    \A i, j \in 1..Len(appointments) :
        (/\ i < j
         /\ SameDoctorAndDate(appointments[i], appointments[j])
         /\ appointments[i].status # "Cancelled"
         /\ appointments[j].status # "Cancelled")
        => ~IntervalsOverlap(appointments[i], appointments[j])

\* C2: a create with an otherwise valid payload fails with the conflict
\* error whenever a non-Cancelled record of the same doctor and date
\* overlaps the new interval.
C2_OverlapRejected ==
    [][(/\ ValidCreateStep
        /\ \E i \in Overlapped(appointments, last'.payload[1]) :
               appointments[i].status # "Cancelled")
       => last'.outcome = "Time conflict detected"]_vars

\* A valid create was refused for a partial overlap with the live apt-001.
C2_Witness ==
    /\ last.op = "create"
    /\ ValidPayload(last.payload[1])
    /\ last.outcome = "Time conflict detected"
    /\ \E i \in Overlapped(appointments, last.payload[1]) :
          /\ appointments[i].status # "Cancelled"
          /\ StartMin(appointments[i]) < StartMin(last.payload[1])
          /\ StartMin(last.payload[1]) < EndMin(appointments[i])

\* C3: a valid create that touches a record of the same doctor and date
\* only at an interval boundary, and overlaps no live record, succeeds.
C3_BoundaryAccepted ==
    [][(/\ ValidCreateStep
        /\ Adjacent(appointments, last'.payload[1]) # {}
        /\ \A i \in Overlapped(appointments, last'.payload[1]) :
               appointments[i].status = "Cancelled")
       => last'.outcome = "ok"]_vars

\* C4: after the only record occupying a slot has been cancelled, a valid
\* create for the same doctor and date and an overlapping interval succeeds.
C4_CancelledNeverBlocks ==
    [][(/\ ValidCreateStep
        /\ Overlapped(appointments, last'.payload[1]) # {}
        /\ \A i \in Overlapped(appointments, last'.payload[1]) :
               appointments[i].status = "Cancelled")
       => last'.outcome = "ok"]_vars

\* C5: a valid create whose payload carries status Cancelled succeeds even
\* when it overlaps a non-Cancelled record of the same doctor and date.
C5_CancelledPayloadAccepted ==
    [][(/\ ValidCreateStep
        /\ ~Falsy(last'.payload[1], "status")
        /\ last'.payload[1].status = "Cancelled")
       => last'.outcome = "ok"]_vars

\* C6: in every reachable state no two records have the same id.
C6_UniqueIds ==
    \A i, j \in 1..Len(appointments) :
        i # j => appointments[i].id # appointments[j].id

\* C7: a create that fails leaves the record list exactly as it was.
C7_FailedCreateLeavesStore ==
    [][(last'.op = "create" /\ last'.outcome # "ok") => appointments' = appointments]_vars

\* A create passed every check but the last one (the status) and failed.
C7_Witness ==
    /\ last.op = "create"
    /\ last.outcome = "Invalid status"
    /\ appointments # MockAppointments

\* C8: update_appointment_status(id, s) with a valid s, called twice in a
\* row, leaves the store as the first call left it and returns the same.
C8_UpdateIdempotent ==
    [][(/\ last.op = "update"
        /\ last.status \in valid_statuses
        /\ last'.op = "update"
        /\ last'.id = last.id
        /\ last'.status = last.status)
       => (/\ appointments' = appointments
           /\ last'.outcome = last.outcome
           /\ last'.ret = last.ret)]_vars

\* The same successful update was made twice in a row.
C8_Witness ==
    /\ last.op = "update"
    /\ last.repeat
    /\ last.outcome = "ok"
    /\ last.ret[1].status = last.status

\* C9: a successful update changes the status of one record with that id
\* and nothing else: no other field, no other record, no position.
C9_UpdateFrame ==
    [][(last'.op = "update" /\ last'.outcome = "ok")
       => (/\ Len(appointments') = Len(appointments)
           /\ \E i \in 1..Len(appointments) :
                 /\ appointments[i].id = last'.id
                 /\ appointments'[i] = [appointments[i] EXCEPT !.status = last'.status]
                 /\ \A j \in 1..Len(appointments) :
                       j # i => appointments'[j] = appointments[j])]_vars

\* An update has changed the status of a record that is not the last one.
C9_Witness ==
    /\ last.op = "update"
    /\ last.outcome = "ok"
    /\ ~last.repeat
    /\ \E i \in 1..(Len(appointments) - 1) :
          appointments[i].id = last.id /\ appointments[i].status = last.status

\* C10: update with a valid status and delete, called with an id that is
\* not in the store, return null and false and leave the store unchanged.
C10_NotFoundChangesNothing ==
    [][(/\ last'.op \in {"update", "delete"}
        /\ last'.id \notin Ids(appointments)
        /\ last'.op = "update" => last'.status \in valid_statuses)
       => (/\ appointments' = appointments
           /\ last'.ret = <<>>
           /\ last'.outcome = IF last'.op = "update" THEN "null" ELSE "false")]_vars

\* A delete did not find its id in a store that holds a created record.
C10_Witness ==
    /\ last.op = "delete"
    /\ last.outcome = "false"
    /\ last.id \notin Ids(appointments)
    /\ Len(appointments) > Len(MockAppointments)

\* C11: a delete of an id that is in the store returns true, leaves no
\* record with that id, and keeps every other record and their order.
C11_DeleteFrame ==
    [][(last'.op = "delete" /\ last'.id \in Ids(appointments))
       => (/\ last'.outcome = "true"
           /\ last'.id \notin Ids(appointments')
           /\ \E i \in 1..Len(appointments) :
                 /\ appointments[i].id = last'.id
                 /\ appointments' = SubSeq(appointments, 1, i - 1)
                                    \o SubSeq(appointments, i + 1, Len(appointments)))]_vars

\* C12: once delete_appointment has removed a record with an id, no later
\* state of the store holds a record with that id.
C12_DeletedStayDeleted == \A id \in removed : id \notin Ids(appointments)

\* C13: changing a field of a record of a list get_appointments returned
\* leaves the records of the store unchanged.
C13_NoLiveReferences ==
    [][last'.op = "write" => appointments' = appointments]_vars

\* The stored records that equal the filter on every key in Given.
Matching(appts, filters, Given) ==
    LET Match(apt) == \A key \in Given : apt[key] = filters[key]
    IN  SelectSeq(appts, Match)

\* C14 as stated: get_appointments returns, in list order, the records that
\* equal every key present in the filter, and leaves the store unchanged.
C14_GetExactMatch ==
    [][last'.op = "get"
       => (/\ Deref(appointments, last'.ret)
                = Matching(appointments, last'.payload[1], DOMAIN last'.payload[1])
           /\ appointments' = appointments)]_vars

\* C14 as amended: a key whose value is the empty string counts as absent.
C14_GetMatchesGivenKeys ==
    [][last'.op = "get"
       => (/\ Deref(appointments, last'.ret)
                = Matching(appointments, last'.payload[1],
                           {key \in DOMAIN last'.payload[1] :
                               key = "date" \/ last'.payload[1][key] # ""})
           /\ appointments' = appointments)]_vars

\* A get with two filter keys returned some but not all records of a store
\* that holds a created record.
C14_Witness ==
    /\ last.op = "get"
    /\ Cardinality(DOMAIN last.payload[1]) = 2
    /\ Len(last.ret) > 0
    /\ Len(last.ret) < Len(appointments)
    /\ Len(appointments) > Len(MockAppointments)

\* C15: in every reachable state the status of every record is one of
\* Scheduled, Confirmed, Upcoming, Cancelled.
C15_StatusInEnumeration ==
    \A i \in 1..Len(appointments) :
        appointments[i].status \in {"Scheduled", "Confirmed", "Upcoming", "Cancelled"}

\* An update asked for a status outside the enumeration on a record that a
\* create has stored.
C15_Witness ==
    /\ last.op = "update"
    /\ last.status \notin {"Scheduled", "Confirmed", "Upcoming", "Cancelled"}
    /\ \E i \in (Len(MockAppointments) + 1)..Len(appointments) :
          appointments[i].id = last.id

\* C16: in every reachable state the mode of every record is one of
\* In-Person, Virtual, Phone.
C16_ModeInEnumeration ==
    \A i \in 1..Len(appointments) :
        appointments[i].mode \in {"In-Person", "Virtual", "Phone"}

\* The payload asks for a record that is not Cancelled.
LivePayload(p) == Falsy(p, "status") \/ p.status # "Cancelled"

C18_OverlappingGetDifferentColumns ==
    layout.rendered =>
        \A i, j \in 1..Len(layout.scope) :
            (i # j /\ IntervalsOverlap(layout.scope[i], layout.scope[j]))
            => layout.styles[i].zIndex # layout.styles[j].zIndex

\* The horizontal spans [left, left + width) of two styles are disjoint.
SpansDisjoint(a, b) ==
    \/ (a.left + a.width) * b.den <= b.left * a.den
    \/ (b.left + b.width) * a.den <= a.left * b.den

\* C19: two appointments of a scope whose intervals overlap in time get
\* horizontal spans [left, left + width) that do not overlap.
C19_OverlappingGetDisjointSpans ==
    layout.rendered =>
        \A i, j \in 1..Len(layout.scope) :
            (i # j /\ IntervalsOverlap(layout.scope[i], layout.scope[j]))
            => SpansDisjoint(layout.styles[i], layout.styles[j])

\* n is the integer nearest to num / 30.
NearestToThirtieths(n, num) == 2 * (30 * n - num) <= 30 /\ 2 * (num - 30 * n) <= 30

\* C21: the height of every rendered appointment is at least one slot
\* height, and is exactly (duration / 30) x 80 when the duration is at
\* least 30 minutes; top is the rounded ((startMinutes - 420) / 30) x 80.
C21_HeightExact ==
    layout.rendered =>
        \A i \in 1..Len(layout.scope) :
            /\ layout.styles[i].height >= 80
            /\ layout.scope[i].duration >= 30
               => 30 * layout.styles[i].height = layout.scope[i].duration * 80
            /\ NearestToThirtieths(layout.styles[i].top,
                                   (StartMin(layout.scope[i]) - 420) * 80)

\* C21, amended: the height is at least one slot height and, when the
\* duration is at least 30 minutes, the whole number of pixels nearest to
\* (duration / 30) x 80; top is the rounded ((startMinutes - 420) / 30) x 80.
C21_HeightRounded ==
    layout.rendered =>
        \A i \in 1..Len(layout.scope) :
            /\ layout.styles[i].height >= 80
            /\ layout.scope[i].duration >= 30
               => NearestToThirtieths(layout.styles[i].height,
                                      layout.scope[i].duration * 80)
            /\ NearestToThirtieths(layout.styles[i].top,
                                   (StartMin(layout.scope[i]) - 420) * 80)

\* A scope was rendered that holds an appointment shorter than a slot, drawn
\* one slot high, and one of 40 minutes, drawn 107 pixels high.
C21_Witness ==
    /\ layout.rendered
    /\ \E i, j \in 1..Len(layout.scope) :
          /\ layout.scope[i].duration < 30
          /\ layout.styles[i].height = 80
          /\ layout.scope[j].duration = 40
          /\ layout.styles[j].height = 107

\* The step is a create_appointment call that succeeded.
CreatedStep == last'.op = "create" /\ last'.outcome = "ok"

\* C22: a successful create whose payload has no status stores and returns
\* a record with status Scheduled; when the payload has a valid status the
\* stored and returned status is the payload's.
C22_StatusDefaulted ==
    [][CreatedStep =>
        LET payload == last'.payload[1]
            stored == appointments'[Len(appointments')]
            returned == last'.ret[1]
        IN  /\ "status" \notin DOMAIN payload
               => stored.status = "Scheduled" /\ returned.status = "Scheduled"
            /\ ("status" \in DOMAIN payload /\ payload.status \in valid_statuses)
               => stored.status = payload.status /\ returned.status = payload.status]_vars

\* A create with the status Cancelled in its payload succeeded and its
\* record is stored as Cancelled.
C22_Witness ==
    /\ last.op = "create"
    /\ last.outcome = "ok"
    /\ "status" \in DOMAIN last.payload[1]
    /\ last.payload[1].status = "Cancelled"
    /\ appointments[Len(appointments)].status = "Cancelled"
    /\ last.ret[1].status = "Cancelled"

\* C23: once a mutation handler has run, no request is in flight and none
\* has failed, the appointments state of the component is the record list
\* of the backend store.
C23_RefreshedAfterMutation ==
    (/\ \A h \in Handlers : frontend.handlers[h].pc \in {"idle", "done"}
     /\ \E h \in Handlers : h # 0 /\ frontend.handlers[h].pc = "done")
    => frontend.appointments = appointments

\* C24: an update with a status outside the enumeration fails with the
\* validation error and leaves the store unchanged, for every id, whether or
\* not a record has that id.
C24_StatusValidatedBeforeLookup ==
    [][(last'.op = "update" /\ last'.status \notin valid_statuses)
       => /\ last'.outcome = "Invalid status"
          /\ appointments' = appointments]_vars

\* An update of an id no record has, with a status outside the enumeration,
\* ended in the validation error.
C24_Witness ==
    /\ last.op = "update"
    /\ last.status \notin valid_statuses
    /\ last.id \notin Ids(appointments)
    /\ last.outcome = "Invalid status"

\* C25: a create whose payload carries a status outside the enumeration
\* (and passes the other validations) fails with the validation error, never
\* with the conflict error, whatever its interval overlaps.
C25_StatusValidatedBeforeConflict ==
    [][(/\ last'.op = "create"
        /\ \A f \in required_fields : ~Falsy(last'.payload[1], f)
        /\ dateRegex(last'.payload[1].date)
        /\ timeRegex(last'.payload[1].time)
        /\ last'.payload[1].duration > 0
        /\ ~Falsy(last'.payload[1], "status")
        /\ last'.payload[1].status \notin valid_statuses)
       => last'.outcome = "Invalid status"]_vars

\* C26: a valid create whose interval overlaps records of another doctor or
\* another date, and no record of its own doctor and date, succeeds.
C26_OtherDoctorOrDateIgnored ==
    [][(/\ ValidCreateStep
        /\ Overlapped(appointments, last'.payload[1]) = {}
        /\ \E i \in 1..Len(appointments) :
               IntervalsOverlap(appointments[i], last'.payload[1]))
       => last'.outcome = "ok"]_vars

\* The other members of the scope whose intervals overlap that of member i.
OverlapSet(scope, i) ==
    {j \in 1..Len(scope) : j # i /\ IntervalsOverlap(scope[j], scope[i])}

\* C27: the column index of an appointment is the number of members of its
\* overlap set that are strictly before it in the ordering the set is sorted
\* by (start time, then doctor name), and its column count is the size of
\* the set plus one.
C27_IndexCountsEarlier ==
    layout.rendered =>
        \A i \in 1..Len(layout.scope) :
            /\ layout.styles[i].zIndex - 10 =
                   Cardinality({j \in OverlapSet(layout.scope, i) :
                                   CompareOverlapping(layout.scope[j], layout.scope[i]) < 0})
            /\ layout.styles[i].den = Cardinality(OverlapSet(layout.scope, i)) + 1

\* C28: the returned width is at least 20 percent, and the returned left
\* offset is the column index times the returned width plus the 2 percent
\* gap, for every number of overlapping appointments.
C28_WidthFloorAndLeft ==
    layout.rendered =>
        \A i \in 1..Len(layout.scope) :
            LET style == layout.styles[i]
                columnIndex == style.zIndex - 10
            IN  /\ style.width >= 20 * style.den
                /\ style.left = columnIndex * (style.width + 2 * style.den)

Rearranged(list, p) == [k \in 1..Len(list) |-> list[p[k]]]

\* C30: the position of an appointment is the same for every arrangement of
\* the same appointments in the scope list.
C30_OrderIndependent ==
    layout.rendered =>
        \A p \in Permutations(1..Len(layout.scope)) :
            \A i \in 1..Len(layout.scope) :
                getAppointmentPosition(layout.scope[i], Rearranged(layout.scope, p))
                    = layout.styles[i]

\* ---------------------------------------------------- supporting lemmas
\* The payload's date and time make a Date the constructor can parse.
ParseablePayload(p) == NewDate(p.date, p.time).valid

\* On parseable dates a valid create that only touches its neighbours at an
\* interval boundary succeeds: the refusals of back-to-back creates all lie
\* on dates such as NoSuchDate.
BoundaryAcceptedOnParseableDates ==
    [][(/\ ValidCreateStep
        /\ ParseablePayload(last'.payload[1])
        /\ Adjacent(appointments, last'.payload[1]) # {}
        /\ \A i \in Overlapped(appointments, last'.payload[1]) :
               appointments[i].status = "Cancelled")
       => last'.outcome = "ok"]_vars

\* On parseable dates a valid create over records that are all Cancelled
\* succeeds.
CancelledNeverBlocksOnParseableDates ==
    [][(/\ ValidCreateStep
        /\ ParseablePayload(last'.payload[1])
        /\ Overlapped(appointments, last'.payload[1]) # {}
        /\ \A i \in Overlapped(appointments, last'.payload[1]) :
               appointments[i].status = "Cancelled")
       => last'.outcome = "ok"]_vars

\* When the id is carried by one record only, a delete removes that record,
\* returns true and keeps every other record and their order.
DeleteFrameOnUniqueId ==
    [][(/\ last'.op = "delete"
        /\ Cardinality({i \in 1..Len(appointments) : appointments[i].id = last'.id}) = 1)
       => (/\ last'.outcome = "true"
           /\ last'.id \notin Ids(appointments')
           /\ \E i \in 1..Len(appointments) :
                 /\ appointments[i].id = last'.id
                 /\ appointments' = SubSeq(appointments, 1, i - 1)
                                    \o SubSeq(appointments, i + 1, Len(appointments)))]_vars

\* On dates the Date constructor parses, records of another doctor or date
\* never make a valid create fail.
OtherDoctorOrDateIgnoredOnParseableDates ==
    [][(/\ ValidCreateStep
        /\ ParseablePayload(last'.payload[1])
        /\ Overlapped(appointments, last'.payload[1]) = {}
        /\ \E i \in 1..Len(appointments) :
               IntervalsOverlap(appointments[i], last'.payload[1]))
       => last'.outcome = "ok"]_vars

\* The doctor names of the scope are in the same order under localeCompare
\* and under <.
OrdersAgree(scope) ==
    \A i, j \in 1..Len(scope) :
        (localeCompare(scope[i].doctorName, scope[j].doctorName) < 0)
        <=> StringLess(scope[i].doctorName, scope[j].doctorName)

\* When the two orders agree on the names of the scope, the column index
\* counts the members of the overlap set that are strictly before.
IndexCountsEarlierWhenOrdersAgree ==
    (layout.rendered /\ OrdersAgree(layout.scope)) =>
        \A i \in 1..Len(layout.scope) :
            /\ layout.styles[i].zIndex - 10 =
                   Cardinality({j \in OverlapSet(layout.scope, i) :
                                   CompareOverlapping(layout.scope[j], layout.scope[i]) < 0})
            /\ layout.styles[i].den = Cardinality(OverlapSet(layout.scope, i)) + 1

\* No two different doctor names of the scope are equal for localeCompare.
CollationSeparates(scope) ==
    \A i, j \in 1..Len(scope) :
        localeCompare(scope[i].doctorName, scope[j].doctorName) = 0
        => scope[i].doctorName = scope[j].doctorName

\* When localeCompare separates the names of the scope, the position of an
\* appointment is the same for every arrangement of the scope list.
OrderIndependentWhenCollationSeparates ==
    (layout.rendered /\ CollationSeparates(layout.scope)) =>
        \A p \in Permutations(1..Len(layout.scope)) :
            \A i \in 1..Len(layout.scope) :
                getAppointmentPosition(layout.scope[i], Rearranged(layout.scope, p))
                    = layout.styles[i]

====
